---- MODULE Spec2Model ----
(***************************************************************************)
(* AirCheck: text normalizer (nlp_processor.py), training driver           *)
(* (model_training.py) and Flask serving process (app.py).                 *)
(*                                                                         *)
(* Strings are sequences of one-character strings, so that case folding,   *)
(* punctuation stripping, whitespace collapsing and splitting are computed *)
(* character by character as the Python code computes them.                *)
(***************************************************************************)
EXTENDS Integers, Sequences, FiniteSets, TLC

VARIABLES
    raw,            \* nlp_processor: the text handed to the first preprocess call
    ntext,          \* nlp_processor: the text the next preprocess call receives
    nout,           \* nlp_processor: the outputs of the successive preprocess calls
    tpc,            \* model_training: position of main()
    df,             \* model_training: the DataFrame of main()
    tmodel,         \* model_training: local `model` of main()
    tvectorizer,    \* model_training: local `vectorizer` of main()
    accuracy,       \* model_training: local `accuracy` of main() (hits, held-out size)
    saved,          \* model_training: the (model, vectorizer) pairs save_model was called with
    fileModel,      \* disk: contents of model_nb.pkl
    fileVectorizer, \* disk: contents of vectorizer.pkl
    spc,            \* app: state of the serving process
    model,          \* app: global `model`
    vectorizer,     \* app: global `vectorizer`
    loadReturn,     \* app: how the load_model() call of __main__ ended
    request,        \* app: form fields of the last /predict request
    response,       \* app: JSON body returned for it
    calls,          \* app: core functions the handler invoked for it, in order
    probability     \* app: local `probability` of the handler (unrounded)

vars == <<raw, ntext, nout, tpc, df, tmodel, tvectorizer, accuracy, saved,
          fileModel, fileVectorizer, spc, model, vectorizer, loadReturn,
          request, response, calls, probability>>

normVars  == <<raw, ntext, nout>>
trainVars == <<tpc, df, tmodel, tvectorizer, accuracy, saved>>
diskVars  == <<fileModel, fileVectorizer>>
serveVars == <<spc, model, vectorizer, loadReturn, request, response, calls,
               probability>>

(***************************************************************************)
(* Bounds of the model.                                                    *)
(***************************************************************************)
MaxPieces == 3      \* pieces concatenated into a raw text
MaxNormCalls == 2   \* successive preprocess calls on one text
MaxPerLabel == 4    \* rows of one label in a dataset
MaxEvidence == 1    \* largest per-class likelihood score of a non-empty feature vector

(***************************************************************************)
(* Python string primitives.                                               *)
(***************************************************************************)
Whitespace == {" ", "\t", "\n"}

Digits == {"0", "1", "2", "3", "4", "5", "6", "7", "8", "9"}

\* string.punctuation (without the grave accent, which no TLA+ string holds)
Punctuation ==
    {"!", "\"", "#", "$", "%", "&", "'", "(", ")", "*", "+", ",", "-", ".", "/",
     ":", ";", "<", "=", ">", "?", "@", "[", "\\", "]", "^", "_", "{", "|",
     "}", "~"}

LowerOf ==
    "A" :> "a" @@ "B" :> "b" @@ "C" :> "c" @@ "D" :> "d" @@ "E" :> "e" @@
    "F" :> "f" @@ "G" :> "g" @@ "H" :> "h" @@ "I" :> "i" @@ "J" :> "j" @@
    "K" :> "k" @@ "L" :> "l" @@ "M" :> "m" @@ "N" :> "n" @@ "O" :> "o" @@
    "P" :> "p" @@ "Q" :> "q" @@ "R" :> "r" @@ "S" :> "s" @@ "T" :> "t" @@
    "U" :> "u" @@ "V" :> "v" @@ "W" :> "w" @@ "X" :> "x" @@ "Y" :> "y" @@
    "Z" :> "z"

\* str.lower()
py_lower(text) ==
    [i \in DOMAIN text |-> IF text[i] \in DOMAIN LowerOf THEN LowerOf[text[i]] ELSE text[i]]

RECURSIVE py_lstrip(_)
py_lstrip(text) ==
    IF text # <<>> /\ Head(text) \in Whitespace THEN py_lstrip(Tail(text)) ELSE text

RECURSIVE py_rstrip(_)
py_rstrip(text) ==
    IF text # <<>> /\ text[Len(text)] \in Whitespace
    THEN py_rstrip(SubSeq(text, 1, Len(text) - 1))
    ELSE text

\* str.strip()
py_strip(text) == py_rstrip(py_lstrip(text))

\* re.sub(r'\s+', ' ', text)
RECURSIVE collapse_whitespace(_)
collapse_whitespace(text) ==
    IF text = <<>> THEN <<>>
    ELSE IF Head(text) \in Whitespace
         THEN <<" ">> \o collapse_whitespace(py_lstrip(text))
         ELSE <<Head(text)>> \o collapse_whitespace(Tail(text))

\* Index of the first character of text in the set seps, 0 when there is none.
RECURSIVE find_first(_, _, _)
find_first(text, seps, i) ==
    IF i > Len(text) THEN 0
    ELSE IF text[i] \in seps THEN i
    ELSE find_first(text, seps, i + 1)

\* str.split(' '): splits at every single space, keeping empty strings.
RECURSIVE py_split_on(_, _)
py_split_on(text, seps) ==
    LET i == find_first(text, seps, 1)
    IN  IF i = 0 THEN <<text>>
        ELSE <<SubSeq(text, 1, i - 1)>> \o py_split_on(SubSeq(text, i + 1, Len(text)), seps)

\* str.split(): splits on runs of whitespace, no empty strings.
py_split(text) == SelectSeq(py_split_on(text, Whitespace), LAMBDA w : w # <<>>)

\* ' '.join(tokens)
RECURSIVE py_join(_)
py_join(tokens) ==
    IF tokens = <<>> THEN <<>>
    ELSE IF Len(tokens) = 1 THEN tokens[1]
    ELSE tokens[1] \o <<" ">> \o py_join(Tail(tokens))

(***************************************************************************)
(* nlp_processor.py                                                        *)
(***************************************************************************)
CUSTOM_STOPWORDS ==
    { <<"d", "a", "n">>, <<"a", "t", "a", "u">>, <<"y", "a", "n", "g">>,
      <<"d", "i">>, <<"k", "e">>, <<"d", "a", "r", "i">>,
      <<"i", "n", "i">>, <<"i", "t", "u">>, <<"d", "e", "n", "g", "a", "n">>,
      <<"u", "n", "t", "u", "k">>, <<"p", "a", "d", "a">>, <<"a", "d", "a", "l", "a", "h">>,
      <<"j", "u", "g", "a">>, <<"s", "u", "d", "a", "h">>, <<"a", "k", "a", "n">>,
      <<"b", "i", "s", "a">>, <<"a", "d", "a">>, <<"t", "i", "d", "a", "k">>,
      <<"s", "a", "y", "a">>, <<"k", "a", "m", "i">>, <<"k", "i", "t", "a">>,
      <<"m", "e", "r", "e", "k", "a">>, <<"d", "i", "a">>, <<"i", "a">>,
      <<"s", "a", "n", "g", "a", "t">>, <<"s", "e", "k", "a", "l", "i">>,
      <<"t", "e", "r", "a", "s", "a">>, <<"s", "e", "p", "e", "r", "t", "i">> }

\* The word list of the Sastrawi stopword remover created at import, cut to
\* the words of at most six letters the alphabet of the raw texts can spell.
SastrawiStopwords ==
    { <<"y", "a", "n", "g">>, <<"p", "a", "d", "a">>, <<"d", "i", "a">>,
      <<"d", "u", "a">>, <<"d", "a", "n">>, <<"i", "n", "i">>,
      <<"h", "a", "l">>, <<"a", "d", "a", "l", "a", "h">>, <<"h", "a", "n", "y", "a">>,
      <<"a", "d", "a">>, <<"s", "u", "d", "a", "h">>, <<"s", "a", "y", "a">>,
      <<"a", "n", "d", "a">>, <<"l", "a", "i", "n">>, <<"b", "i", "s", "a">> }

\* stopword_remover.remove(text): split(' '), drop the listed words, join.
stopword_remover_remove(text) ==
    py_join(SelectSeq(py_split_on(text, {" "}), LAMBDA w : w \notin SastrawiStopwords))

\* Root words of the Sastrawi stemmer's dictionary among the words the raw
\* texts can spell.
RootWords ==
    { <<"u", "d", "a", "r", "a">>, <<"b", "e", "r", "s", "i", "h">>,
      <<"a", "s", "a", "p">>, <<"a", "d", "a">>, <<"i", "n", "i">>,
      <<"y", "a", "n", "g">>, <<"s", "a", "n", "g", "a", "t">> }

ends_with(word, suffix) ==
    /\ Len(word) > Len(suffix)
    /\ SubSeq(word, Len(word) - Len(suffix) + 1, Len(word)) = suffix

drop_suffix(word, suffixes) ==
    IF \E s \in suffixes : ends_with(word, s)
    THEN LET s == CHOOSE s \in suffixes : ends_with(word, s)
         IN  SubSeq(word, 1, Len(word) - Len(s))
    ELSE word

InflectionParticles == { <<"l", "a", "h">>, <<"k", "a", "h">>, <<"t", "a", "h">>, <<"p", "u", "n">> }

PossessivePronouns == { <<"k", "u">>, <<"m", "u">>, <<"n", "y", "a">> }

\* stemmer.stem(word) for one lowercase ASCII word: words of at most three
\* letters and dictionary roots are returned as they are; otherwise the
\* inflectional particle, then the possessive pronoun are removed, and the
\* first dictionary root met is the result; a word with no root is returned
\* unchanged.  (The words of the bounded texts carry no derivational affix.)
stemmer_stem(word) ==
    LET w1 == drop_suffix(word, InflectionParticles)
        w2 == drop_suffix(w1, PossessivePronouns)
    IN  IF Len(word) <= 3 \/ word \in RootWords THEN word
        ELSE IF w1 \in RootWords THEN w1
        ELSE IF w2 \in RootWords THEN w2
        ELSE word

case_folding(text) == py_lower(text)

remove_punctuation(text) ==
    LET t1 == SelectSeq(text, LAMBDA c : c \notin Punctuation)
        t2 == SelectSeq(t1, LAMBDA c : c \notin Digits)
    IN  py_strip(collapse_whitespace(t2))

tokenize(text) == py_split(text)

remove_stopwords(tokens) ==
    LET text == stopword_remover_remove(py_join(tokens))
    IN  SelectSeq(py_split(text), LAMBDA word : word \notin CUSTOM_STOPWORDS)

stem(tokens) == [i \in DOMAIN tokens |-> stemmer_stem(tokens[i])]

preprocess(text) ==
    py_join(stem(remove_stopwords(tokenize(remove_punctuation(case_folding(text))))))

preprocess_batch(texts) == [i \in DOMAIN texts |-> preprocess(texts[i])]

(***************************************************************************)
(* Raw texts: the examples of the documentation, and every concatenation   *)
(* of at most MaxPieces pieces.                                            *)
(***************************************************************************)
Pieces ==
    { <<"a", "d", "a">>, <<"n", "y", "a">>, <<"y", "a", "n", "g">>,
      <<"A", "s", "a", "p">>, <<" ">>, <<"\t">>, <<"!">>, <<"7">> }

RECURSIVE Concat(_)
Concat(parts) == IF parts = <<>> THEN <<>> ELSE Head(parts) \o Concat(Tail(parts))

Composed == { Concat(p) : p \in UNION { [1..n -> Pieces] : n \in 0..MaxPieces } }

Examples ==
    { <<"u", "d", "a", "r", "a", " ", "y", "a", "n", "g", " ", "s", "a", "n", "g", "a", "t",
        " ", "b", "e", "r", "s", "i", "h">>,
      <<"U", "d", "a", "r", "a", " ", "B", "e", "r", "s", "i", "h", "!", "!", "!">>,
      <<"u", "d", "a", "r", "a", " ", "b", "e", "r", "s", "i", "h">>,
      <<" ", " ", " ">> }

RawTexts == Composed \cup Examples

(***************************************************************************)
(* model_training.py                                                       *)
(***************************************************************************)
\* The label values, in the order np.unique sorts them.
LabelOrder == <<"Baik", "Sedang", "Tidak Sehat">>

Labels == {LabelOrder[i] : i \in DOMAIN LabelOrder}

RECURSIVE Repeat(_, _)
Repeat(x, n) == IF n = 0 THEN <<>> ELSE <<x>> \o Repeat(x, n - 1)

\* A CSV with counts[l] rows of label l, every jawaban_user being text.
MakeRows(counts, text) ==
    Concat([i \in DOMAIN LabelOrder |->
              Repeat([jawaban_user |-> text, label_kualitas |-> LabelOrder[i]],
                     counts[LabelOrder[i]])])

\* The CSVs read: every mix of at most MaxPerLabel rows per label of a plain
\* answer, and CSVs whose answers are all one stopword.
PlainAnswer == <<"A", "s", "a", "p", "!">>

StopwordAnswer == <<"y", "a", "n", "g">>

Datasets ==
    { MakeRows(c, PlainAnswer) : c \in [Labels -> 0..MaxPerLabel] }
    \cup { MakeRows([l \in Labels |-> k], StopwordAnswer) : k \in 1..MaxPerLabel }

\* preprocess_dataset: df['processed_text'] = preprocess_batch(df['jawaban_user'])
preprocess_dataset(d) ==
    LET processed == preprocess_batch([i \in DOMAIN d |-> d[i].jawaban_user])
    IN  [i \in DOMAIN d |->
           [jawaban_user |-> d[i].jawaban_user, label_kualitas |-> d[i].label_kualitas,
            processed_text |-> processed[i]]]

class_count(d, l) == Cardinality({i \in DOMAIN d : d[i].label_kualitas = l})

classes_of(d) == SelectSeq(LabelOrder, LAMBDA l : class_count(d, l) > 0)

RECURSIVE SumOver(_, _)
SumOver(f, S) ==
    IF S = {} THEN 0
    ELSE LET x == CHOOSE x \in S : TRUE IN f[x] + SumOver(f, S \ {x})

\* train_test_split(X, y, test_size=0.2, random_state=42, stratify=y): whether
\* the split is refused (a ValueError), from the sizes alone.
split_refused(d) ==
    LET n == Len(d)
        n_test == (n + 4) \div 5
        n_train == (4 * n) \div 5
        n_classes == Len(classes_of(d))
    IN  \/ n = 0
        \/ n_train = 0
        \/ \E l \in Labels : class_count(d, l) = 1
        \/ n_train < n_classes
        \/ n_test < n_classes

\* The per-label sizes of the training partition a stratified split can give:
\* each label keeps its share of n_train, rounded down or up.
train_counts(d) ==
    LET n == Len(d)
        n_train == (4 * n) \div 5
        share(l) == (class_count(d, l) * n_train) \div n
        exact(l) == (class_count(d, l) * n_train) % n = 0
    IN  { tr \in { [l \in Labels |-> share(l) + up[l]] : up \in [Labels -> {0, 1}] } :
            /\ \A l \in Labels : tr[l] <= class_count(d, l) /\ (exact(l) => tr[l] = share(l))
            /\ SumOver(tr, Labels) = n_train }

\* The rows of the training partition: tr[l] rows of each label l.
train_rows(d, tr) ==
    SelectSeq([i \in DOMAIN d |-> [row |-> d[i],
                 rank |-> Cardinality({j \in 1..i : d[j].label_kualitas = d[i].label_kualitas})]],
              LAMBDA r : r.rank <= tr[r.row.label_kualitas])

\* TfidfVectorizer's analyzer with ngram_range=(1, 2): the tokens of two or
\* more characters, and the pairs of adjacent ones.
ngrams(text) ==
    LET toks == SelectSeq(py_split(text), LAMBDA w : Len(w) >= 2)
    IN  { <<toks[i]>> : i \in DOMAIN toks }
        \cup { <<toks[i], toks[i + 1]>> : i \in 1..(Len(toks) - 1) }

\* vectorizer.fit_transform(X_train): the vocabulary (at most 1000 terms; the
\* bounded datasets never reach the cap).
fit_vocabulary(rows) == UNION { ngrams(rows[i].row.processed_text) : i \in DOMAIN rows }

\* train_model(df) in training run r: the results it can end with.  An error
\* is an exception raised by train_test_split or by fit_transform (empty
\* vocabulary); otherwise the fitted pair and the accuracy on the held-out
\* partition (hits out of n_test; the evaluation only reports).
train_model(d, r) ==
    IF split_refused(d) THEN { [ok |-> FALSE] }
    ELSE UNION { LET rows == train_rows(d, tr)
                     vocabulary == fit_vocabulary(rows)
                     y_train == [i \in DOMAIN rows |-> rows[i].row]
                 IN  IF vocabulary = {} THEN { [ok |-> FALSE] }
                     ELSE { [ok |-> TRUE,
                             model |-> [kind |-> "model", run |-> r,
                                        classes_ |-> classes_of(y_train),
                                        class_count_ |-> tr],
                             vectorizer |-> [kind |-> "vectorizer", run |-> r,
                                             vocabulary_ |-> vocabulary],
                             accuracy |-> [hits |-> h, of |-> Len(d) - Len(rows)]]
                            : h \in 0..(Len(d) - Len(rows)) }
               : tr \in train_counts(d) }

(***************************************************************************)
(* The files model_nb.pkl and vectorizer.pkl, and the values of main().    *)
(***************************************************************************)
Absent == [kind |-> "absent"]     \* no such file

Corrupt == [kind |-> "corrupt"]   \* a file pickle.load cannot read (empty, cut short, damaged)

None == [kind |-> "None"]

NoAccuracy == [hits |-> 0, of |-> 0]

Running == {"loaded", "preprocessed", "trained", "model_opened", "model_dumped",
            "vectorizer_opened", "saved", "tested"}

TrainInit ==
    /\ tpc = "idle"
    /\ df = <<>>
    /\ tmodel = None
    /\ tvectorizer = None
    /\ accuracy = NoAccuracy
    /\ saved = <<>>

\* The training process ends and its values are gone.
process_exit(how) ==
    /\ tpc' = how
    /\ df' = <<>>
    /\ tmodel' = None
    /\ tvectorizer' = None
    /\ accuracy' = NoAccuracy
    /\ saved' = <<>>

\* python model_training.py: main() starts and load_dataset() reads the CSV.
load_dataset ==
    /\ tpc = "idle"
    /\ spc = "off"
    /\ \E d \in Datasets : df' = d
    /\ tpc' = "loaded"
    /\ UNCHANGED <<tmodel, tvectorizer, accuracy, saved, normVars, diskVars, serveVars>>

main_preprocess_dataset ==
    /\ tpc = "loaded"
    /\ df' = preprocess_dataset(df)
    /\ tpc' = "preprocessed"
    /\ UNCHANGED <<tmodel, tvectorizer, accuracy, saved, normVars, diskVars, serveVars>>

\* model, vectorizer, accuracy = train_model(df); an exception ends main().
main_train_model ==
    /\ tpc = "preprocessed"
    /\ \E res \in train_model(df, "this run") :
          IF res.ok
          THEN /\ tmodel' = res.model
               /\ tvectorizer' = res.vectorizer
               /\ accuracy' = res.accuracy
               /\ tpc' = "trained"
               /\ UNCHANGED <<df, saved>>
          ELSE process_exit("failed")
    /\ UNCHANGED <<normVars, diskVars, serveVars>>

\* A main() that saves only a model whose held-out accuracy is above zero.
save_model_open_gated ==
    /\ tpc = "trained"
    /\ IF accuracy.hits > 0
       THEN /\ saved' = <<tmodel, tvectorizer>>
            /\ fileModel' = Corrupt
            /\ tpc' = "model_opened"
       ELSE /\ tpc' = "saved"
            /\ UNCHANGED <<saved, fileModel>>
    /\ UNCHANGED <<df, tmodel, tvectorizer, accuracy, fileVectorizer, normVars, serveVars>>

\* save_model(model, vectorizer): open(model_path, 'wb') truncates the file.
save_model_open ==
    /\ tpc = "trained"
    /\ saved' = <<tmodel, tvectorizer>>
    /\ fileModel' = Corrupt
    /\ tpc' = "model_opened"
    /\ UNCHANGED <<df, tmodel, tvectorizer, accuracy, fileVectorizer, normVars, serveVars>>

\* pickle.dump(model, f) and the close of the with block.
save_model_dump ==
    /\ tpc = "model_opened"
    /\ fileModel' = saved[1]
    /\ tpc' = "model_dumped"
    /\ UNCHANGED <<df, tmodel, tvectorizer, accuracy, saved, fileVectorizer, normVars, serveVars>>

\* open(vectorizer_path, 'wb')
save_vectorizer_open ==
    /\ tpc = "model_dumped"
    /\ fileVectorizer' = Corrupt
    /\ tpc' = "vectorizer_opened"
    /\ UNCHANGED <<df, tmodel, tvectorizer, accuracy, saved, fileModel, normVars, serveVars>>

\* pickle.dump(vectorizer, f); save_model returns.
save_vectorizer_dump ==
    /\ tpc = "vectorizer_opened"
    /\ fileVectorizer' = saved[2]
    /\ tpc' = "saved"
    /\ UNCHANGED <<df, tmodel, tvectorizer, accuracy, saved, fileModel, normVars, serveVars>>

\* save_model does not finish: a write raises (disk full, no permission) or the
\* process is killed; nothing catches it and nothing restores the files.
save_model_interrupted ==
    /\ tpc \in {"model_opened", "model_dumped", "vectorizer_opened"}
    /\ process_exit("failed")
    /\ UNCHANGED <<normVars, diskVars, serveVars>>

\* test_prediction(model, vectorizer): prints three predictions.
main_test_prediction ==
    /\ tpc = "saved"
    /\ tpc' = "tested"
    /\ UNCHANGED <<df, tmodel, tvectorizer, accuracy, saved, normVars, diskVars, serveVars>>

\* main() prints the accuracy and returns.
main_return ==
    /\ tpc = "tested"
    /\ process_exit("done")
    /\ UNCHANGED <<normVars, diskVars, serveVars>>

(***************************************************************************)
(* app.py                                                                  *)
(***************************************************************************)
NoRequest == [none |-> TRUE]

NoResponse == [none |-> TRUE]

ServeInit ==
    /\ spc = "off"
    /\ model = None
    /\ vectorizer = None
    /\ loadReturn = "not called"
    /\ request = NoRequest
    /\ response = NoResponse
    /\ calls = <<>>
    /\ probability = <<>>

\* A load_model() that catches the exception of pickle.load and returns False.
load_model_swallowing ==
    IF fileModel # Absent /\ fileVectorizer # Absent
    THEN IF fileModel = Corrupt
         THEN [model |-> model, vectorizer |-> vectorizer, ret |-> "False"]
         ELSE IF fileVectorizer = Corrupt
         THEN [model |-> fileModel, vectorizer |-> vectorizer, ret |-> "False"]
         ELSE [model |-> fileModel, vectorizer |-> fileVectorizer, ret |-> "True"]
    ELSE [model |-> model, vectorizer |-> vectorizer, ret |-> "False"]

\* load_model(): the globals it leaves and how it ends.  pickle.load raises
\* on a file it cannot read, after the globals assigned before it.
load_model ==
    IF fileModel # Absent /\ fileVectorizer # Absent
    THEN IF fileModel = Corrupt
         THEN [model |-> model, vectorizer |-> vectorizer, ret |-> "raised"]
         ELSE IF fileVectorizer = Corrupt
         THEN [model |-> fileModel, vectorizer |-> vectorizer, ret |-> "raised"]
         ELSE [model |-> fileModel, vectorizer |-> fileVectorizer, ret |-> "True"]
    ELSE [model |-> model, vectorizer |-> vectorizer, ret |-> "False"]

\* python app.py: the __main__ block calls load_model(), then app.run(); an
\* exception of load_model() ends the process before the server starts.
app_main ==
    /\ spc = "off"
    /\ tpc \notin Running
    /\ LET res == load_model
       IN  /\ model' = res.model
           /\ vectorizer' = res.vectorizer
           /\ loadReturn' = res.ret
           /\ spc' = IF res.ret = "raised" THEN "crashed" ELSE "serving"
    /\ UNCHANGED <<request, response, calls, probability, normVars, trainVars, diskVars>>

\* The four form fields of a /predict request.
Forms ==
    [kondisi_kabut : { <<>>, <<"A", "s", "a", "p">> },
     kondisi_bau : { <<>> },
     kondisi_pernapasan : { <<>>, <<"\t">> },
     deskripsi : { <<>>, <<"y", "a", "n", "g">>, <<"K", "a", "b", "u", "t", "!">> }]

\* f"{kondisi_kabut} {kondisi_bau} {kondisi_pernapasan} {deskripsi_tambahan}"
input_text_of(form) ==
    form.kondisi_kabut \o <<" ">> \o form.kondisi_bau \o <<" ">>
        \o form.kondisi_pernapasan \o <<" ">> \o form.deskripsi

\* A test of the text as it is: not input_text
is_blank_unstripped(input_text) == input_text = <<>>

\* not input_text.strip()
is_blank(input_text) == py_strip(input_text) = <<>>

\* vectorizer.transform([processed_text]): the terms of the text that are in
\* the fitted vocabulary (the others are dropped).
vectorizer_transform(v, processed_text) == ngrams(processed_text) \cap v.vocabulary_

\* The labels a classifier was fitted on (none when no classifier is loaded).
classes_set(m) == IF m = None THEN {} ELSE {m.classes_[i] : i \in DOMAIN m.classes_}

\* The joint log-likelihood of each class, in whole units: the class prior
\* (its training count) plus the evidence of the features present; a vector
\* with no feature leaves the prior alone.
joint_log_likelihood(m, text_tfidf, evidence) ==
    [i \in DOMAIN m.classes_ |->
        m.class_count_[m.classes_[i]] + (IF text_tfidf = {} THEN 0 ELSE evidence[m.classes_[i]])]

\* An argmax that returns the last index of the largest value.
argmax_last(jll) ==
    CHOOSE i \in DOMAIN jll :
        /\ \A j \in DOMAIN jll : jll[j] <= jll[i]
        /\ \A j \in (i + 1)..Len(jll) : jll[j] < jll[i]

\* np.argmax: the first index of the largest value.
argmax(jll) ==
    CHOOSE i \in DOMAIN jll :
        /\ \A j \in DOMAIN jll : jll[j] <= jll[i]
        /\ \A j \in 1..(i - 1) : jll[j] < jll[i]

\* model.predict(text_tfidf)[0]
model_predict(m, jll) == m.classes_[argmax(jll)]

RECURSIVE Pow2(_)
Pow2(n) == IF n = 0 THEN 1 ELSE 2 * Pow2(n - 1)

RECURSIVE SumSeq(_)
SumSeq(q) == IF q = <<>> THEN 0 ELSE Head(q) + SumSeq(Tail(q))

\* model.predict_proba(text_tfidf)[0]: exp(jll - logsumexp(jll)), kept as
\* the numerators num[i] over the common denominator den.
model_predict_proba(m, jll) ==
    LET num == [i \in DOMAIN jll |-> Pow2(jll[i])]
    IN  [num |-> num, den |-> SumSeq(num)]

\* round(p * 100, 1), in tenths of a percent, for p = a / b (ties to even).
round_percent(a, b) ==
    LET q == (1000 * a) \div b
        r == (1000 * a) % b
    IN  IF 2 * r < b THEN q
        ELSE IF 2 * r > b THEN q + 1
        ELSE IF q % 2 = 0 THEN q ELSE q + 1

\* dict(zip(model.classes_, [round(p * 100, 1) for p in probability]))
prob_dict_of(m, proba) ==
    [c \in classes_set(m) |->
        LET i == CHOOSE i \in DOMAIN m.classes_ : m.classes_[i] = c
        IN  round_percent(proba.num[i], proba.den)]

\* The /predict handler for one form: its JSON body, the core functions it
\* invoked and its local `probability`.  (The advisory texts of get_saran are
\* drawn at random from a fixed pool and are left out of the body.)
predict_result(form, evidence) ==
    IF model = None \/ vectorizer = None
    THEN [response |-> [error |-> TRUE,
                        message |-> "Model belum dimuat. Jalankan training terlebih dahulu."],
          calls |-> <<>>, probability |-> <<>>]
    ELSE LET input_text == input_text_of(form)
         IN  IF is_blank(input_text)
             THEN [response |-> [error |-> TRUE,
                                 message |-> "Silakan isi minimal satu pertanyaan."],
                   calls |-> <<>>, probability |-> <<>>]
             ELSE LET processed_text == preprocess(input_text)
                      text_tfidf == vectorizer_transform(vectorizer, processed_text)
                      jll == joint_log_likelihood(model, text_tfidf, evidence)
                      prediction == model_predict(model, jll)
                      proba == model_predict_proba(model, jll)
                  IN  [response |-> [error |-> FALSE,
                                     kualitas |-> prediction,
                                     input_text |-> input_text,
                                     processed_text |-> processed_text,
                                     probabilitas |-> prob_dict_of(model, proba)],
                       calls |-> <<"preprocess", "vectorizer.transform", "model.predict",
                                   "model.predict_proba">>,
                       probability |-> proba]

\* A handler that drops the classifier after answering.
predict_globals_reset == model' = None /\ vectorizer' = vectorizer

\* What a /predict request does to the globals: it only reads them.
predict_globals == UNCHANGED <<model, vectorizer>>

\* POST /predict
predict ==
    /\ spc = "serving"
    /\ \E form \in Forms, evidence \in [classes_set(model) -> 0..MaxEvidence] :
          \E res \in {predict_result(form, evidence)} :
              /\ request' = form
              /\ response' = res.response
              /\ calls' = res.calls
              /\ probability' = res.probability
    /\ predict_globals
    /\ UNCHANGED <<spc, loadReturn, normVars, trainVars, diskVars>>

(***************************************************************************)
(* nlp_processor.py, called on its own.                                    *)
(***************************************************************************)
NormInit ==
    /\ raw = <<>>
    /\ ntext = <<>>
    /\ nout = <<>>

\* preprocess(text), then preprocess of what it returned.
preprocess_call ==
    /\ Len(nout) < MaxNormCalls
    /\ nout' = Append(nout, preprocess(ntext))
    /\ ntext' = preprocess(ntext)
    /\ UNCHANGED <<raw, trainVars, diskVars, serveVars>>

(***************************************************************************)
(* Specifications.                                                         *)
(***************************************************************************)
\* The normalizer applied to a raw text.
InitNorm ==
    /\ raw \in RawTexts
    /\ ntext = raw
    /\ nout = <<>>
    /\ TrainInit
    /\ fileModel = Absent
    /\ fileVectorizer = Absent
    /\ ServeInit

NextNorm == preprocess_call

SpecNorm == InitNorm /\ [][NextNorm]_vars

\* Files an earlier training run left, on CSVs of one, two and three labels.
LabelCounts(baik, sedang, tidak_sehat) ==
    [l \in Labels |-> IF l = "Baik" THEN baik ELSE IF l = "Sedang" THEN sedang ELSE tidak_sehat]

ServedDatasets ==
    { MakeRows(c, PlainAnswer) :
        c \in { LabelCounts(0, 3, 0), LabelCounts(3, 0, 3), LabelCounts(2, 0, 4),
                LabelCounts(4, 4, 4), LabelCounts(3, 5, 4) } }

EarlierResults ==
    { res \in UNION { train_model(preprocess_dataset(d), "earlier run") : d \in ServedDatasets } :
        res.ok }

\* One training run, on a fresh checkout or over the files of an earlier
\* run, and a start of the serving process once no training is under way.
InitTrain ==
    /\ NormInit
    /\ TrainInit
    /\ \/ fileModel = Absent /\ fileVectorizer = Absent
       \/ \E res \in EarlierResults : fileModel = res.model /\ fileVectorizer = res.vectorizer
    /\ ServeInit

NextTrain ==
    \/ load_dataset
    \/ main_preprocess_dataset
    \/ main_train_model
    \/ save_model_open
    \/ save_model_dump
    \/ save_vectorizer_open
    \/ save_vectorizer_dump
    \/ save_model_interrupted
    \/ main_test_prediction
    \/ main_return
    \/ app_main

SpecTrain == InitTrain /\ [][NextTrain]_vars

\* The serving process, started on whatever the two files hold: nothing, an
\* unreadable file, or what some training run wrote.
TrainResults ==
    { res \in UNION { train_model(preprocess_dataset(d), r) :
                        d \in ServedDatasets, r \in {"earlier run", "this run"} } :
        res.ok }

ModelFiles == {Absent, Corrupt} \cup { res.model : res \in TrainResults }

VectorizerFiles == {Absent, Corrupt} \cup { res.vectorizer : res \in TrainResults }

InitServe ==
    /\ NormInit
    /\ TrainInit
    /\ fileModel \in ModelFiles
    /\ fileVectorizer \in VectorizerFiles
    /\ ServeInit

NextServe ==
    \/ app_main
    \/ predict

SpecServe == InitServe /\ [][NextServe]_vars

(***************************************************************************)
(* Properties.                                                             *)
(***************************************************************************)
IsError(resp) == "error" \in DOMAIN resp /\ resp.error

IsSuccess(resp) == "kualitas" \in DOMAIN resp

Unreadable == {Absent, Corrupt}

\* Every character of every form field is whitespace.
AllBlank(form) ==
    \A f \in DOMAIN form : \A i \in DOMAIN form[f] : form[f][i] \in Whitespace

CoreCalls == <<"preprocess", "vectorizer.transform", "model.predict", "model.predict_proba">>

class_index(m, c) == CHOOSE i \in DOMAIN m.classes_ : m.classes_[i] = c

\* C1: whatever load_model met (a file absent, a pickle.load failing, both
\* files read), a serving process never holds exactly one of model and
\* vectorizer, and a /predict request reaches the core functions only when
\* both globals are the values one successful load_model call read.
C1_ArtifactPaired ==
    /\ spc = "serving" => ((model = None) <=> (vectorizer = None))
    /\ calls # <<>> =>
          /\ loadReturn = "True"
          /\ model = fileModel /\ model.kind = "model"
          /\ vectorizer = fileVectorizer /\ vectorizer.kind = "vectorizer"

\* C1 witness: the classifier file is there without the feature-extractor
\* file; the server runs with neither global set and answers "not ready".
C1_Witness ==
    /\ spc = "serving"
    /\ fileModel.kind = "model" /\ fileVectorizer = Absent
    /\ model = None /\ vectorizer = None
    /\ IsError(response) /\ calls = <<>>

\* C2: when a persisted file is missing or unreadable, load_model returns
\* without raising, the server starts, and every /predict request gets the
\* error response.
C2_NotReadyNeverCrashes ==
    (spc # "off" /\ (fileModel \in Unreadable \/ fileVectorizer \in Unreadable)) =>
        /\ spc = "serving"
        /\ loadReturn = "False"
        /\ request # NoRequest => IsError(response)

\* C3: once save_model is over, finished or interrupted, the classifier file
\* and the feature-extractor file come from the same training run, and a
\* serving process never holds a classifier of one run with the vectorizer
\* of another.
C3_SavedAsPair ==
    /\ (tpc \notin Running /\ fileModel.kind = "model" /\ fileVectorizer.kind = "vectorizer")
          => fileModel.run = fileVectorizer.run
    /\ (spc = "serving" /\ model # None /\ vectorizer # None)
          => model.run = vectorizer.run

\* C4: preprocess is idempotent: preprocess(preprocess(s)) = preprocess(s).
C4_Idempotent == Len(nout) >= 2 => nout[2] = nout[1]

\* C5: no token of the text preprocess returns is in the generic stopword
\* list or in CUSTOM_STOPWORDS.
C5_StopwordFree ==
    Len(nout) >= 1 =>
        \A i \in DOMAIN py_split(nout[1]) :
            py_split(nout[1])[i] \notin (SastrawiStopwords \cup CUSTOM_STOPWORDS)

\* C6: on a dataset of fewer than 2 rows or of one distinct label,
\* train_model ends in an error: main never holds a fitted model and never
\* reaches save_model.
C6_DegenerateRejected ==
    (tpc \in Running /\ (Len(df) < 2 \/ Len(classes_of(df)) = 1)) =>
        /\ tpc \in {"loaded", "preprocessed"}
        /\ saved = <<>>

\* C7: the handler joins the four fields with single spaces; a request whose
\* fields hold nothing but whitespace gets the error response with no core
\* function invoked; any other request, with an artifact loaded, goes
\* through preprocess, transform and predict, also when its normalized text
\* is empty.
C7_BlankRejectedBeforeCore ==
    request # NoRequest =>
        /\ AllBlank(request) => IsError(response) /\ calls = <<>>
        /\ (~AllBlank(request) /\ model # None /\ vectorizer # None) =>
              /\ calls = CoreCalls
              /\ IsSuccess(response)
              /\ response.input_text =
                    request.kondisi_kabut \o <<" ">> \o request.kondisi_bau \o <<" ">>
                        \o request.kondisi_pernapasan \o <<" ">> \o request.deskripsi

\* C7 witness: with an artifact loaded, a request made of a tab alone is
\* rejected before the core.
C7_Witness ==
    /\ model # None /\ vectorizer # None
    /\ request # NoRequest
    /\ request.kondisi_pernapasan = <<"\t">>
    /\ AllBlank(request)
    /\ IsError(response) /\ calls = <<>>

\* C7, second case: a request that is not blank but whose normalized text is
\* empty reaches the core.
C7_EmptyNormalizedReachesCore ==
    /\ request # NoRequest
    /\ ~AllBlank(request)
    /\ calls = CoreCalls
    /\ IsSuccess(response)
    /\ response.processed_text = <<>>

\* C8: the globals model and vectorizer change only in the step in which
\* load_model runs at startup; no /predict request changes them.
C8_ArtifactReadOnly ==
    [][(model' # model \/ vectorizer' # vectorizer) => (spc = "off" /\ spc' # "off")]_vars

\* C8 witness: a loaded artifact in a serving process that has answered a
\* request through the core.
C8_Witness ==
    /\ spc = "serving"
    /\ model = fileModel /\ model.kind = "model"
    /\ vectorizer = fileVectorizer /\ vectorizer.kind = "vectorizer"
    /\ calls = CoreCalls

\* C9: in a successful response the keys of probabilitas are the classes of
\* the classifier, kualitas is one of them, no class has a greater rounded
\* percentage or a greater probability, and among the classes of equal
\* probability kualitas is the first in classes_ order.
C9_ArgmaxLabel ==
    IsSuccess(response) =>
        LET k == response.kualitas
            pd == response.probabilitas
        IN  /\ DOMAIN pd = classes_set(model)
            /\ k \in DOMAIN pd
            /\ \A c \in DOMAIN pd :
                  /\ pd[c] <= pd[k]
                  /\ probability.num[class_index(model, c)]
                        <= probability.num[class_index(model, k)]
                  /\ probability.num[class_index(model, c)]
                        = probability.num[class_index(model, k)]
                        => class_index(model, k) <= class_index(model, c)

\* C9 witness: a successful response in which another class ties with the
\* returned one, and a third class has a smaller probability.
C9_Witness ==
    /\ IsSuccess(response)
    /\ \E c \in DOMAIN response.probabilitas :
          /\ c # response.kualitas
          /\ probability.num[class_index(model, c)]
                = probability.num[class_index(model, response.kualitas)]
    /\ \E c \in DOMAIN response.probabilitas :
          response.probabilitas[c] < response.probabilitas[response.kualitas]

\* C10: once train_model has returned, the next step of main is save_model,
\* called with the fitted pair whatever the accuracy, and test_prediction
\* starts only after save_model has written that pair.
C10_SavedWhateverAccuracy ==
    [][/\ tpc = "trained" => (tpc' = "model_opened" /\ saved' = <<tmodel, tvectorizer>>)
       /\ tpc' = "tested" =>
             /\ tpc = "saved"
             /\ saved = <<tmodel, tvectorizer>>
             /\ fileModel = tmodel /\ fileVectorizer = tvectorizer]_vars

\* C10 witness: a model that got none of the held-out rows right has been saved.
C10_Witness ==
    /\ tpc = "saved"
    /\ accuracy.of > 0 /\ accuracy.hits = 0
    /\ fileModel = tmodel /\ fileVectorizer = tvectorizer

====
